---- MODULE Spec2Model ----
(***************************************************************************)
(* Construction of the two stages of src/src/stages/athena-sql.ts:         *)
(* AthenaSQLStage and FirehoseToS3Stage.  Everything happens at            *)
(* construction time, so the state machine is the constructor's progress   *)
(* (pc), the properties it was given (props), the fields it has assigned   *)
(* and the child constructs it has created in its scope (children).        *)
(*                                                                         *)
(* Values.  An optional TypeScript value is a tuple: <<>> is undefined and *)
(* <<v>> is the value v.  A plain JavaScript object is a function from its *)
(* keys to optional values, so that a key that is absent differs from a    *)
(* key that is present, and object spread can be modelled as it works.     *)
(***************************************************************************)
EXTENDS Integers, Sequences, FiniteSets, TLC

VARIABLES pc, kind, props, error, children,
          stateMachineInput, queryStringInput, definition, stateMachine,
          targets, eventPattern,
          bucket, dataStream, destinationsBucketProps, deliveryStream, alarms

vars == <<pc, kind, props, error, children,
          stateMachineInput, queryStringInput, definition, stateMachine,
          targets, eventPattern,
          bucket, dataStream, destinationsBucketProps, deliveryStream, alarms>>

athenaVars == <<stateMachineInput, queryStringInput, definition, stateMachine, targets>>
firehoseVars == <<bucket, dataStream, destinationsBucketProps, deliveryStream, alarms>>

----------------------------------------------------------------------------
(* Bounds *)

\* alarm threshold / evaluation periods supplied by the caller range over 0..MaxAlarmValue
MaxAlarmValue == 1

----------------------------------------------------------------------------
(* JavaScript values *)

None == <<>>
Some(v) == <<v>>
IsSet(o) == o # <<>>
Val(o) == o[1]
Opt(S) == {None} \cup {Some(v) : v \in S}

\* truthiness of an optional string: undefined and "" are falsy
TruthyStr(o) == IsSet(o) /\ Val(o) # ""
\* truthiness of an optional object reference: only undefined is falsy
TruthyObj(o) == IsSet(o)
\* a ?? b
Nullish(a, b) == IF IsSet(a) THEN a ELSE b

EmptyObject == [k \in {} |-> None]
\* { ...a, ...b }: keys of both, the later object wins on a shared key
Spread(a, b) == [k \in (DOMAIN a) \cup (DOMAIN b) |-> IF k \in DOMAIN b THEN b[k] ELSE a[k]]
\* obj.k, undefined when the key is absent
Get(obj, k) == IF k \in DOMAIN obj THEN obj[k] ELSE None
\* every object with keys among the domain of full and full's values on them
SubObjects(full) == {[k \in K |-> full[k]] : K \in SUBSET (DOMAIN full)}

----------------------------------------------------------------------------
(* Properties a caller may pass *)

QueryStrings == {"", "SELECT 1"}
QueryStringPaths == {"", "$.queryString"}
EncryptionOptions == {"KMS"}
StateMachineInputs == {"input-object"}

AthenaPropsSet ==
    [queryString : Opt(QueryStrings),
     queryStringPath : Opt(QueryStringPaths),
     stateMachineInput : Opt(StateMachineInputs),
     encryptionOption : Opt(EncryptionOptions)]

Init ==
    /\ pc = "idle"
    /\ kind = "none"
    /\ props = None
    /\ error = None
    /\ children = <<>>
    /\ stateMachineInput = None
    /\ queryStringInput = None
    /\ definition = <<>>
    /\ stateMachine = None
    /\ targets = None
    /\ eventPattern = None
    /\ bucket = None
    /\ dataStream = None
    /\ destinationsBucketProps = None
    /\ deliveryStream = None
    /\ alarms = <<>>

----------------------------------------------------------------------------
(* AthenaSQLStage *)

BothQueryError == "For this stage provide one of queryString or queryStringPath parameter, not both"
NoQueryError == "For this stage one of queryString or queryStringPath parameter is required"

Child(type, id) == [type |-> type, id |-> id]

\* sfn.JsonPath.stringAt(path): a token that refers to the path, never the empty string
JsonPathStringAt(path) == [kind |-> "jsonPath", text |-> path]
LiteralString(s) == [kind |-> "literal", text |-> s]

\* props.queryStringPath ? sfn.JsonPath.stringAt(props.queryStringPath) : props.queryString
QueryStringInput(p) ==
    IF TruthyStr(p.queryStringPath) THEN Some(JsonPathStringAt(Val(p.queryStringPath)))
    ELSE IF IsSet(p.queryString) THEN Some(LiteralString(Val(p.queryString)))
    ELSE None

\* !queryStringInput
QueryStringInputFalsy(q) ==
    \/ ~IsSet(q)
    \/ Val(q).kind = "literal" /\ Val(q).text = ""

\* super(scope, id, props); this.stateMachineInput = props.stateMachineInput
NewAthenaSQLStage ==
    /\ pc = "idle"
    /\ \E p \in AthenaPropsSet :
         /\ props' = Some(p)
         /\ stateMachineInput' = p.stateMachineInput
    /\ pc' = "athena_check_both"
    /\ kind' = "athena"
    /\ UNCHANGED <<error, children, queryStringInput, definition, stateMachine, targets,
                   eventPattern>>
    /\ UNCHANGED firehoseVars

\* AthenaCheckBoth without the check for both query sources
AthenaCheckBoth_Skipped ==
    /\ pc = "athena_check_both"
    /\ pc' = "athena_check_input"
    /\ UNCHANGED <<kind, props, error, children, eventPattern>>
    /\ UNCHANGED athenaVars
    /\ UNCHANGED firehoseVars

\* if (props.queryString && props.queryStringPath) throw
AthenaCheckBoth ==
    /\ pc = "athena_check_both"
    /\ IF TruthyStr(Val(props).queryString) /\ TruthyStr(Val(props).queryStringPath)
       THEN /\ pc' = "failed"
            /\ error' = Some(BothQueryError)
       ELSE /\ pc' = "athena_check_input"
            /\ UNCHANGED error
    /\ UNCHANGED <<kind, props, children, eventPattern>>
    /\ UNCHANGED athenaVars
    /\ UNCHANGED firehoseVars

\* AthenaCheckInput with the query task created before the input is checked
AthenaCheckInput_AfterTask ==
    /\ pc = "athena_check_input"
    /\ queryStringInput' = QueryStringInput(Val(props))
    /\ children' = Append(children, Child("tasks.AthenaStartQueryExecution", "Start Query Exec"))
    /\ IF QueryStringInputFalsy(queryStringInput')
       THEN /\ pc' = "failed"
            /\ error' = Some(NoQueryError)
       ELSE /\ pc' = "athena_definition"
            /\ UNCHANGED error
    /\ UNCHANGED <<kind, props, eventPattern,
                   stateMachineInput, definition, stateMachine, targets>>
    /\ UNCHANGED firehoseVars

\* const queryStringInput = ...; if (!queryStringInput) throw
AthenaCheckInput ==
    /\ pc = "athena_check_input"
    /\ queryStringInput' = QueryStringInput(Val(props))
    /\ IF QueryStringInputFalsy(queryStringInput')
       THEN /\ pc' = "failed"
            /\ error' = Some(NoQueryError)
       ELSE /\ pc' = "athena_definition"
            /\ UNCHANGED error
    /\ UNCHANGED <<kind, props, children, eventPattern,
                   stateMachineInput, definition, stateMachine, targets>>
    /\ UNCHANGED firehoseVars

\* the task's configuration (second argument of tasks.AthenaStartQueryExecution)
StartQueryExecProps(p, q) ==
    [queryString |-> q,
     integrationPattern |-> "RUN_JOB",
     encryptionOption |-> Val(Nullish(p.encryptionOption, Some("S3_MANAGED")))]

\* startQueryExec.next(new sfn.Succeed(this, "Success")): the chain of states, in order
AthenaDefinition(p, q) ==
    <<[id |-> "Start Query Exec", type |-> "tasks.AthenaStartQueryExecution",
       config |-> Some(StartQueryExecProps(p, q))],
      [id |-> "Success", type |-> "sfn.Succeed", config |-> None]>>

\* the identifiers of the states of a definition, in order
StepIds(def) == [i \in 1..Len(def) |-> def[i].id]

AthenaBuildDefinition ==
    /\ pc = "athena_definition"
    /\ children' = children \o <<Child("tasks.AthenaStartQueryExecution", "Start Query Exec"),
                                 Child("sfn.Succeed", "Success")>>
    /\ definition' = AthenaDefinition(Val(props), Val(queryStringInput))
    /\ pc' = "athena_state_machine"
    /\ UNCHANGED <<kind, props, error, eventPattern,
                   stateMachineInput, queryStringInput, stateMachine, targets>>
    /\ UNCHANGED firehoseVars

\* StateMachineStage.createStateMachine(definition, props)
CreateStateMachine(def, p) ==
    [stateMachine |-> [id |-> "State Machine", definition |-> def],
     eventPattern |-> [source |-> <<"aws.states">>,
                       detailType |-> <<"Step Functions Execution Status Change">>,
                       detail |-> [k \in {"status"} |-> <<"SUCCEEDED">>]]]

FromObject(obj) == [kind |-> "object", value |-> obj]
FromEventPath(path) == [kind |-> "eventPath", value |-> Some(path)]

\* TargetInput with the test on queryStringPath instead of queryString
TargetInput_ByPath(p, smInput) ==
    IF TruthyStr(p.queryStringPath) THEN FromObject(smInput) ELSE FromEventPath("$.detail")

\* input of the rule target: props.queryString ? fromObject(...) : fromEventPath("$.detail")
TargetInput(p, smInput) ==
    IF TruthyStr(p.queryString) THEN FromObject(smInput) ELSE FromEventPath("$.detail")

AthenaCreateStateMachine ==
    /\ pc = "athena_state_machine"
    /\ LET r == CreateStateMachine(definition, Val(props)) IN
         /\ stateMachine' = Some(r.stateMachine)
         /\ eventPattern' = Some(r.eventPattern)
         /\ children' = Append(children, Child("sfn.StateMachine", r.stateMachine.id))
         /\ targets' = Some(<<[stateMachine |-> r.stateMachine,
                               input |-> TargetInput(Val(props), stateMachineInput)]>>)
    /\ pc' = "done"
    /\ UNCHANGED <<kind, props, error, stateMachineInput, queryStringInput, definition>>
    /\ UNCHANGED firehoseVars

AthenaNext ==
    \/ NewAthenaSQLStage
    \/ AthenaCheckBoth
    \/ AthenaCheckInput
    \/ AthenaBuildDefinition
    \/ AthenaCreateStateMachine

----------------------------------------------------------------------------
(* FirehoseToS3Stage *)

NoBucketError == "'s3Bucket' or 's3BucketProps' must be set to instantiate this stage"

ExternalBucket == [id |-> "Bucket", bucketName |-> "external-bucket", created |-> FALSE,
                   config |-> EmptyObject]
ExternalDataStream == [id |-> "External Data Stream", created |-> FALSE]
ExternalDeliveryStream == [id |-> "External Delivery Stream", created |-> FALSE,
                           config |-> EmptyObject]

\* values a caller may give in kinesisFirehoseDestinationsS3BucketProps
DestinationOverrides ==
    [compression |-> Some("SNAPPY"),
     bufferingInterval |-> Some(60),
     bufferingSize |-> Some(1),
     dataOutputPrefix |-> Some("firehose/")]

FirehosePropsSet ==
    [s3Bucket : Opt({ExternalBucket}),
     s3BucketProps : Opt({EmptyObject, [eventBridgeEnabled |-> Some(FALSE)]}),
     firehoseDeliveryStream : Opt({ExternalDeliveryStream}),
     firehoseDeliveryStreamProps :
         Opt({[deliveryStreamName |-> Some("ingest"), sourceStream |-> Some(ExternalDataStream)]}),
     kinesisFirehoseDestinationsS3BucketProps : Opt(SubObjects(DestinationOverrides)),
     dataOutputPrefix : Opt({"", "raw/"}),
     dataStreamEnabled : Opt(BOOLEAN),
     dataStream : Opt({ExternalDataStream}),
     deliveryStreamDataFreshnessErrorsAlarmThreshold : Opt(0..MaxAlarmValue),
     deliveryStreamDataFreshnessErrorsEvaluationPeriods : Opt(0..MaxAlarmValue)]

\* super(scope, id, props)
NewFirehoseToS3Stage ==
    /\ pc = "idle"
    /\ \E p \in FirehosePropsSet : props' = Some(p)
    /\ pc' = "firehose_bucket"
    /\ kind' = "firehose"
    /\ UNCHANGED <<error, children, eventPattern>>
    /\ UNCHANGED athenaVars
    /\ UNCHANGED firehoseVars

\* S3Factory.bucket(scope, id, props)
S3FactoryBucket(id, config) ==
    [id |-> id, bucketName |-> "stage-bucket", created |-> TRUE, config |-> config]

\* BucketBranch that rejects the two properties given together
BucketBranch_ExactlyOne(p) ==
    IF TruthyObj(p.s3Bucket) /\ TruthyObj(p.s3BucketProps) THEN "throw"
    ELSE IF TruthyObj(p.s3Bucket) THEN "given"
    ELSE IF TruthyObj(p.s3BucketProps) THEN "create"
    ELSE "throw"

\* BucketBranch that tests s3BucketProps first
BucketBranch_PropsFirst(p) ==
    IF TruthyObj(p.s3BucketProps) THEN "create"
    ELSE IF TruthyObj(p.s3Bucket) THEN "given"
    ELSE "throw"

\* which of the three branches of the bucket resolution is taken
BucketBranch(p) ==
    IF TruthyObj(p.s3Bucket) THEN "given"
    ELSE IF TruthyObj(p.s3BucketProps) THEN "create"
    ELSE "throw"

FirehoseResolveBucket ==
    /\ pc = "firehose_bucket"
    /\ LET p == Val(props)
           b == BucketBranch(p) IN
         CASE b = "given" ->
                /\ bucket' = p.s3Bucket
                /\ pc' = "firehose_data_stream"
                /\ UNCHANGED <<children, error>>
           [] b = "create" ->
                /\ bucket' = Some(S3FactoryBucket("Stage Bucket",
                                   Spread(Val(p.s3BucketProps), [eventBridgeEnabled |-> Some(TRUE)])))
                /\ children' = Append(children, Child("s3.Bucket", "Stage Bucket"))
                /\ pc' = "firehose_data_stream"
                /\ UNCHANGED error
           [] b = "throw" ->
                /\ pc' = "failed"
                /\ error' = Some(NoBucketError)
                /\ UNCHANGED <<bucket, children>>
    /\ UNCHANGED <<kind, props, eventPattern, dataStream, destinationsBucketProps,
                   deliveryStream, alarms>>
    /\ UNCHANGED athenaVars

\* DataStreamBranch that creates a stream unless dataStreamEnabled is false
DataStreamBranch_NotDisabled(p) ==
    IF p.dataStreamEnabled # Some(FALSE) /\ ~TruthyObj(p.dataStream) THEN "create"
    ELSE IF p.dataStreamEnabled # Some(FALSE) /\ TruthyObj(p.dataStream) THEN "given"
    ELSE "none"

\* which branch of the data stream resolution is taken
DataStreamBranch(p) ==
    IF p.dataStreamEnabled = Some(TRUE) /\ ~TruthyObj(p.dataStream) THEN "create"
    ELSE IF p.dataStreamEnabled # Some(FALSE) /\ TruthyObj(p.dataStream) THEN "given"
    ELSE "none"

FirehoseResolveDataStream ==
    /\ pc = "firehose_data_stream"
    /\ LET p == Val(props)
           b == DataStreamBranch(p) IN
         CASE b = "create" ->
                /\ dataStream' = Some([id |-> "Data Stream", created |-> TRUE])
                /\ children' = Append(children, Child("kinesis.Stream", "Data Stream"))
           [] b = "given" ->
                /\ dataStream' = p.dataStream
                /\ UNCHANGED children
           [] b = "none" ->
                /\ UNCHANGED <<dataStream, children>>
    /\ pc' = "firehose_delivery_stream"
    /\ UNCHANGED <<kind, props, error, eventPattern, bucket, destinationsBucketProps,
                   deliveryStream, alarms>>
    /\ UNCHANGED athenaVars

\* DefaultDestinationProps with another buffering interval
DefaultDestinationProps_Interval ==
    [compression |-> Some("GZIP"),
     bufferingInterval |-> Some(900),
     bufferingSize |-> Some(5)]

\* first argument of overrideProps
DefaultDestinationProps ==
    [compression |-> Some("GZIP"),
     bufferingInterval |-> Some(300),
     bufferingSize |-> Some(5)]

\* second argument of overrideProps
UserDestinationProps(p) ==
    Spread(Val(Nullish(p.kinesisFirehoseDestinationsS3BucketProps, Some(EmptyObject))),
           [dataOutputPrefix |-> p.dataOutputPrefix])

\* overrideProps(defaults, user) of ../core: every field the user object has replaces
\* the default, every other default is kept
OverrideProps(defaults, user) ==
    [k \in (DOMAIN defaults) \cup (DOMAIN user) |->
        IF k \in DOMAIN user THEN user[k] ELSE defaults[k]]

\* configuration of the delivery stream the stage creates
DeliveryStreamConfig(p, b, ds, dest) ==
    Spread([destination |-> Some([bucket |-> b, config |-> dest]),
            source |-> IF TruthyObj(ds) THEN Some([stream |-> Val(ds)]) ELSE None],
           Val(Nullish(p.firehoseDeliveryStreamProps, Some(EmptyObject))))

FirehoseDeliveryStream ==
    /\ pc = "firehose_delivery_stream"
    /\ LET p == Val(props)
           dest == OverrideProps(DefaultDestinationProps, UserDestinationProps(p)) IN
         /\ destinationsBucketProps' = Some(dest)
         /\ IF TruthyObj(p.firehoseDeliveryStream)
            THEN /\ deliveryStream' = p.firehoseDeliveryStream
                 /\ UNCHANGED children
            ELSE /\ deliveryStream' = Some([id |-> "Delivery Stream", created |-> TRUE,
                                            config |-> DeliveryStreamConfig(p, Val(bucket), dataStream, dest)])
                 /\ children' = Append(children, Child("firehose.DeliveryStream", "Delivery Stream"))
    /\ pc' = "firehose_alarm"
    /\ UNCHANGED <<kind, props, error, eventPattern, bucket, dataStream, alarms>>
    /\ UNCHANGED athenaVars

\* AlarmProps with threshold and evaluationPeriods exchanged
AlarmProps_Swapped(p, stream, dest) ==
    [metric |-> [stream |-> stream.id, name |-> "DeliveryToS3.DataFreshness",
                 period |-> Get(dest, "bufferingInterval"), statistic |-> "Maximum"],
     threshold |-> p.deliveryStreamDataFreshnessErrorsEvaluationPeriods,
     evaluationPeriods |-> p.deliveryStreamDataFreshnessErrorsAlarmThreshold]

\* the argument of addAlarm
AlarmProps(p, stream, dest) ==
    [metric |-> [stream |-> stream.id, name |-> "DeliveryToS3.DataFreshness",
                 period |-> Get(dest, "bufferingInterval"), statistic |-> "Maximum"],
     threshold |-> p.deliveryStreamDataFreshnessErrorsAlarmThreshold,
     evaluationPeriods |-> p.deliveryStreamDataFreshnessErrorsEvaluationPeriods]

DefaultAlarmThreshold == 900
DefaultEvaluationPeriods == 1

\* DataStage.addAlarm(id, props) of ../pipelines/stage
AddAlarm(id, ap) ==
    [id |-> id, metric |-> ap.metric,
     threshold |-> Val(Nullish(ap.threshold, Some(DefaultAlarmThreshold))),
     evaluationPeriods |-> Val(Nullish(ap.evaluationPeriods, Some(DefaultEvaluationPeriods)))]

FirehoseAddAlarm ==
    /\ pc = "firehose_alarm"
    /\ alarms' = Append(alarms, AddAlarm("Data Freshness Errors",
                           AlarmProps(Val(props), Val(deliveryStream), Val(destinationsBucketProps))))
    /\ children' = Append(children, Child("cloudwatch.Alarm", "Data Freshness Errors"))
    /\ pc' = "firehose_event_pattern"
    /\ UNCHANGED <<kind, props, error, eventPattern, bucket, dataStream,
                   destinationsBucketProps, deliveryStream>>
    /\ UNCHANGED athenaVars

\* eventDetail: the bucket filter, and the object key filter when the prefix is truthy
EventDetail(b, prefix) ==
    Spread([bucket |-> [name |-> <<b.bucketName>>]],
           IF TruthyStr(prefix)
           THEN [object |-> [key |-> <<[prefix |-> Val(prefix)]>>]]
           ELSE EmptyObject)

FirehoseEventPattern ==
    /\ pc = "firehose_event_pattern"
    /\ LET dataOutputPrefix == Get(Val(destinationsBucketProps), "dataOutputPrefix") IN
         eventPattern' = Some([source |-> <<"aws.s3">>,
                               detail |-> EventDetail(Val(bucket), dataOutputPrefix),
                               detailType |-> <<"Object Created">>])
    /\ pc' = "done"
    /\ UNCHANGED <<kind, props, error, children>>
    /\ UNCHANGED athenaVars
    /\ UNCHANGED firehoseVars

FirehoseNext ==
    \/ NewFirehoseToS3Stage
    \/ FirehoseResolveBucket
    \/ FirehoseResolveDataStream
    \/ FirehoseDeliveryStream
    \/ FirehoseAddAlarm
    \/ FirehoseEventPattern

Next == AthenaNext \/ FirehoseNext

Spec == Init /\ [][Next]_vars

----------------------------------------------------------------------------
(* Properties *)

AthenaPast == {"athena_definition", "athena_state_machine", "done"}
FirehosePastBucket == {"firehose_data_stream", "firehose_delivery_stream", "firehose_alarm",
                       "firehose_event_pattern", "done"}
FirehosePastDataStream == FirehosePastBucket \ {"firehose_data_stream"}

ExactlyOne(a, b) == (a /\ ~b) \/ (~a /\ b)
HasChild(id) == \E i \in 1..Len(children) : children[i].id = id

\* C1 as stated, a property "supplied" when it is not undefined: construction fails when
\* both query sources are supplied and when neither is, and with exactly one supplied it
\* succeeds with the definition "Start Query Exec" then "Success".
C1_AsStated ==
    (kind = "athena" /\ pc \in {"done", "failed"}) =>
        LET qs == IsSet(Val(props).queryString)
            qp == IsSet(Val(props).queryStringPath) IN
          /\ (qs /\ qp) => pc = "failed"
          /\ (~qs /\ ~qp) => pc = "failed"
          /\ ExactlyOne(qs, qp) =>
                (pc = "done" /\ StepIds(definition) = <<"Start Query Exec", "Success">>)

\* C1 amended: construction fails with the stage's error when queryString and
\* queryStringPath are both non-empty strings, and when neither is (each unset or empty);
\* when exactly one is a non-empty string validation passes and the definition, also the
\* one the state machine is created from, is "Start Query Exec" followed by "Success".
C1_QuerySource ==
    kind = "athena" =>
        LET qs == TruthyStr(Val(props).queryString)
            qp == TruthyStr(Val(props).queryStringPath) IN
          /\ (pc = "failed" /\ qs /\ qp) => error = Some(BothQueryError)
          /\ (pc = "failed" /\ ~qs /\ ~qp) => error = Some(NoQueryError)
          /\ pc = "failed" => ~ExactlyOne(qs, qp)
          /\ pc \in AthenaPast => ExactlyOne(qs, qp)
          /\ pc = "done" =>
                /\ StepIds(definition) = <<"Start Query Exec", "Success">>
                /\ StepIds(Val(stateMachine).definition) = <<"Start Query Exec", "Success">>

C1_Witness ==
    /\ kind = "athena" /\ pc = "done"
    /\ Val(props).queryString = Some("SELECT 1")
    /\ ~IsSet(Val(props).queryStringPath)
    /\ Len(definition) = 2

\* C2 as stated: construction of FirehoseToS3Stage succeeds when exactly one of s3Bucket
\* and s3BucketProps is set and fails in every other case (both set, or neither set).
C2_AsStated ==
    (kind = "firehose" /\ pc \in {"done", "failed"}) =>
        (pc = "done" <=> ExactlyOne(IsSet(Val(props).s3Bucket), IsSet(Val(props).s3BucketProps)))

\* C2 amended: FirehoseToS3Stage requires at least one of s3Bucket and s3BucketProps:
\* construction fails, with the stage's error, exactly when neither is set, and passes the
\* bucket resolution when one of them or both are set.
C2_AtLeastOne ==
    kind = "firehose" =>
        LET neither == ~IsSet(Val(props).s3Bucket) /\ ~IsSet(Val(props).s3BucketProps) IN
          /\ pc = "failed" => (neither /\ error = Some(NoBucketError))
          /\ pc \in FirehosePastBucket => (~neither /\ IsSet(bucket) /\ error = None)

C2_Witness ==
    /\ kind = "firehose" /\ pc = "done"
    /\ IsSet(Val(props).s3Bucket) /\ IsSet(Val(props).s3BucketProps)
    /\ IsSet(bucket)

\* C3: with neither s3Bucket nor s3BucketProps construction fails; with both it succeeds
\* and the handle takes precedence: the stage's bucket is the supplied s3Bucket and no
\* bucket is created from s3BucketProps.
C3_HandlePrecedence ==
    kind = "firehose" =>
        /\ (pc \in {"done", "failed"} /\ ~IsSet(Val(props).s3Bucket) /\ ~IsSet(Val(props).s3BucketProps))
              => pc = "failed"
        /\ (pc \in {"done", "failed"} /\ IsSet(Val(props).s3Bucket) /\ IsSet(Val(props).s3BucketProps))
              => pc = "done"
        /\ (pc \in FirehosePastBucket /\ IsSet(Val(props).s3Bucket) /\ IsSet(Val(props).s3BucketProps))
              => /\ bucket = Val(props).s3Bucket
                 /\ Val(bucket).created = FALSE
                 /\ ~HasChild("Stage Bucket")

C3_Witness ==
    /\ kind = "firehose" /\ pc = "done"
    /\ IsSet(Val(props).s3Bucket) /\ IsSet(Val(props).s3BucketProps)
    /\ bucket = Some(ExternalBucket)
    /\ ~HasChild("Stage Bucket")

\* the source of the delivery stream the stage created
CreatedSource == Get(Val(deliveryStream).config, "source")
StreamCreated == IsSet(deliveryStream) /\ Val(deliveryStream).created

C5_EnabledHasNoEffect ==
    (kind = "firehose" /\ pc \in FirehosePastDataStream /\ IsSet(Val(props).dataStream)) =>
        /\ dataStream = Val(props).dataStream
        /\ ~HasChild("Data Stream")

\* the prefix a caller configured, by dataOutputPrefix or in
\* kinesisFirehoseDestinationsS3BucketProps; None when neither holds a non-empty prefix
ConfiguredPrefix(p) ==
    IF TruthyStr(p.dataOutputPrefix) THEN p.dataOutputPrefix
    ELSE IF /\ IsSet(p.kinesisFirehoseDestinationsS3BucketProps)
            /\ TruthyStr(Get(Val(p.kinesisFirehoseDestinationsS3BucketProps), "dataOutputPrefix"))
         THEN Get(Val(p.kinesisFirehoseDestinationsS3BucketProps), "dataOutputPrefix")
    ELSE None

\* C6: the emitted event pattern filters on the name of the resolved bucket, and has an
\* object key prefix filter if and only if a prefix was configured (by dataOutputPrefix or
\* by kinesisFirehoseDestinationsS3BucketProps), the filter's prefix being that prefix.
C6_PatternPrefix ==
    (kind = "firehose" /\ pc = "done") =>
        LET detail == Val(eventPattern).detail
            conf == ConfiguredPrefix(Val(props)) IN
          /\ detail["bucket"] = [name |-> <<Val(bucket).bucketName>>]
          /\ ("object" \in DOMAIN detail) <=> IsSet(conf)
          /\ ("object" \in DOMAIN detail) => detail["object"] = [key |-> <<[prefix |-> Val(conf)]>>]

ExpectedDestinationField(p, k) ==
    IF IsSet(p.kinesisFirehoseDestinationsS3BucketProps)
       /\ k \in DOMAIN Val(p.kinesisFirehoseDestinationsS3BucketProps)
    THEN Val(p.kinesisFirehoseDestinationsS3BucketProps)[k]
    ELSE CASE k = "compression" -> <<"GZIP">>
           [] k = "bufferingInterval" -> <<300>>
           [] k = "bufferingSize" -> <<5>>

\* C8: the S3 destination of the created delivery stream has GZIP compression, a 300 second
\* buffering interval and a 5 MiB buffering size, except that each of these fields that
\* kinesisFirehoseDestinationsS3BucketProps gives has the given value.
C8_DestinationDefaults ==
    (kind = "firehose" /\ pc = "done" /\ StreamCreated) =>
        LET dest == Val(Get(Val(deliveryStream).config, "destination")) IN
          /\ dest.bucket = Val(bucket)
          /\ \A k \in {"compression", "bufferingInterval", "bufferingSize"} :
                /\ k \in DOMAIN dest.config
                /\ dest.config[k] = ExpectedDestinationField(Val(props), k)

C8_Witness ==
    /\ kind = "firehose" /\ pc = "done" /\ StreamCreated
    /\ IsSet(Val(props).kinesisFirehoseDestinationsS3BucketProps)
    /\ DOMAIN Val(Val(props).kinesisFirehoseDestinationsS3BucketProps) = {"bufferingSize"}
    /\ Val(Get(Val(deliveryStream).config, "destination")).config["bufferingSize"] = <<1>>
    /\ Val(Get(Val(deliveryStream).config, "destination")).config["bufferingInterval"] = <<300>>

C10_ValidationFirst ==
    /\ pc \in {"idle", "athena_check_both", "athena_check_input", "firehose_bucket", "failed"} =>
          /\ children = <<>>
          /\ definition = <<>> /\ stateMachine = None /\ targets = None
          /\ bucket = None /\ dataStream = None /\ deliveryStream = None /\ alarms = <<>>
    /\ pc = "failed" => IsSet(error)

C10_Witness ==
    /\ kind = "athena" /\ pc = "failed"
    /\ error = Some(NoQueryError)
    /\ children = <<>>

====
